---- MODULE Spec2Model ----
(***************************************************************************)
(* State-machine model of src/notifier/astrbot.py (class AstrBotNotifier): *)
(* the lazily created HTTP session, the delivery client _post_message, the *)
(* image transcoder _download_and_encode_image, the batch loop send, and   *)
(* send_text, handle_feedback and close.  Coroutines are cut at their      *)
(* awaits that suspend (image fetch, HTTP POST, asyncio.sleep); everything *)
(* between two such awaits is one atomic step.                             *)
(***************************************************************************)
EXTENDS Integers, Sequences, FiniteSets, TLC

(* ---------------------------- bounds ----------------------------------- *)
MaxBatch == 2          \* longest batch handed to send
MaxSessions == 2       \* sessions created in all
MaxPageCount == 4      \* largest page_count of a record given to format_message alone
MaxMaxPages == 3       \* largest max_pages of a notifier whose format_message is applied alone
MaxEdge == 5           \* longest edge of an image given to the transcoder alone
MaxImageSize == 4      \* largest max_image_size of a notifier whose transcoder is applied alone

(* ------------------------- program constants --------------------------- *)
max_pages == 2         \* constructor argument max_pages (default 10, line 33)
SendInterval == 1      \* asyncio.sleep(1), line 225

(* Python None and the result of dict.get on a missing key. *)
None == -1

(* ------------------------------ inputs --------------------------------- *)
(* Illust records: the fields send and format_message read.  A score is   *)
(* held in thousandths (875 is the float 0.875), None when there is none.  *)
Illust(id, urls, pages, r18, type, score, tags) ==
    [id |-> id, image_urls |-> urls, page_count |-> pages, is_r18 |-> r18,
     type |-> type, match_score |-> score, tags |-> tags,
     title |-> "title", user_name |-> "user", bookmark_count |-> 100 * id]

Catalogue ==
    { Illust(1, <<>>,       1, FALSE, "illust", None, <<>>),
      Illust(2, <<21, 22>>, 3, TRUE,  "ugoira", 875,  <<"a", "b", "c", "d", "e", "f">>) }

RECURSIVE SeqsUpTo(_, _)
SeqsUpTo(S, n) ==
    IF n = 0 THEN { <<>> }
    ELSE LET shorter == SeqsUpTo(S, n - 1)
         IN  shorter \cup { Append(s, x) : s \in {t \in shorter : Len(t) = n - 1}, x \in S }

Batches == SeqsUpTo(Catalogue, MaxBatch)

(* The identifiers a gateway response can carry under message_id and      *)
(* under msg_id; 0 is the one Python takes for false.                      *)
MessageIdValues == {0, 1}
MsgIdValues == {0, 2}


(* ------------------------- Python values -------------------------------- *)
(* A parsed JSON response body, as the fields the code can tell apart:     *)
(* kind "object" (a dict: the two identifier fields, each None when the    *)
(* key is missing, and whether it holds any other key), kind "array" (a    *)
(* non-empty list) and kind "None" (JSON null, which json() turns into     *)
(* Python None).  An object that holds an identifier field holds a key.    *)
JsonValue(kind, mid, mid2, other) ==
    [kind |-> kind, message_id |-> mid, msg_id |-> mid2, other |-> other]

NoneResult == JsonValue("None", None, None, FALSE)

EmptyObject == JsonValue("object", None, None, FALSE)

JsonObjects ==
    { JsonValue("object", a, b, TRUE) : a \in MessageIdValues \cup {None},
                                        b \in MsgIdValues \cup {None} }
    \cup { EmptyObject }

JsonBodies == JsonObjects \cup { JsonValue("array", None, None, TRUE), NoneResult }

(* Python truthiness of a parsed body (the test of line 217): None and the *)
(* empty dict are false, a non-empty dict or list is true.                 *)
Truthy(v) ==
    CASE v.kind = "None"   -> FALSE
      [] v.kind = "array"  -> TRUE
      [] v.kind = "object" -> v.message_id # None \/ v.msg_id # None \/ v.other

(* Python truthiness of an identifier (lines 220 and 221): None and 0 are  *)
(* false.                                                                  *)
TruthyId(x) == x # None /\ x # 0

(* a or b, line 220. *)
PyOr(a, b) == IF TruthyId(a) THEN a ELSE b

(* result.get("message_id") or result.get("msg_id"), line 220. *)
ExtractMsgId(v) == PyOr(v.message_id, v.msg_id)

(* ------------------------- HTTP exchange -------------------------------- *)
(* What one POST can come to: no response (the transport raises            *)
(* aiohttp.ClientError or asyncio.TimeoutError), a non-200 response, or a  *)
(* 200 response whose body json() parses ("ok"), rejects with              *)
(* ContentTypeError (a ClientError) or fails to decode (ValueError).       *)
HttpOutcome(net, status, parse, body) ==
    [net |-> net, status |-> status, parse |-> parse, body |-> body]

HttpOutcomes ==
    { HttpOutcome("response", 200, "ok", b) : b \in JsonBodies }
    \cup { HttpOutcome("response", 200, p, NoneResult) : p \in {"ClientError", "ValueError"} }
    \cup { HttpOutcome("response", 500, "ok", NoneResult) }
    \cup { HttpOutcome(n, 0, "ok", NoneResult) : n \in {"ClientError", "TimeoutError"} }

(* No POST has been answered. *)
NoOutcome == HttpOutcome("none", 0, "ok", NoneResult)

(* What a call comes to: a returned value, or an exception leaving it. *)
Return(v) == [raised |-> "none", value |-> v]
Raise(e)  == [raised |-> e, value |-> NoneResult]

(* Except clauses without the one for asyncio.TimeoutError. *)
PostCatchesClientError(e) == e = "ClientError"

(* The except clauses of _post_message, lines 109-114. *)
PostCatches(e) == e \in {"ClientError", "TimeoutError"}

(* The body of the try block of _post_message, lines 100-108: the          *)
(* exception it raises, "none" if it raises nothing.                       *)
PostRaises(o) ==
    IF o.net # "response" THEN o.net
    ELSE IF o.status = 200 /\ o.parse # "ok" THEN o.parse
    ELSE "none"

(* _post_message from the response on, lines 99-114. *)
PostMessage(o) ==
    IF PostRaises(o) = "none"
    THEN IF o.status = 200 THEN Return(o.body) ELSE Return(NoneResult)
    ELSE IF PostCatches(PostRaises(o)) THEN Return(NoneResult)
    ELSE Raise(PostRaises(o))

(* A handler that catches only the exceptions of the transport. *)
SendCatchesTransport(e) == e \in {"ClientError", "TimeoutError"}

(* except Exception, line 227: every exception class of the model derives  *)
(* from Exception.                                                         *)
SendCatches(e) == e \in {"ClientError", "TimeoutError", "ValueError", "AttributeError"}

(* ------------------------- image transcoder ----------------------------- *)
(* Python str | None for img_b64: the Base64 text of the JPEG made from    *)
(* the image behind url, or None.                                          *)
B64(url) == [kind |-> "str", text |-> <<"jpeg-base64:", ToString(url)>>]
NoImage  == [kind |-> "None", text |-> <<>>]

(* What the fetch and the transcoding of one URL can come to: "ok", the    *)
(* download returning nothing ("nodata", line 125), the download raising   *)
(* ("fetchError") and PIL raising on decode or encode ("decodeError").     *)
ImageOutcomes == {"ok", "nodata", "fetchError", "decodeError"}

(* _download_and_encode_image from the download's completion on, lines     *)
(* 123-152: every exception is caught and turned into None.                *)
DownloadAndEncode(o, url) ==
    CASE o = "fetchError"  -> NoImage      \* line 123 raises, lines 150-152
      [] o = "nodata"      -> NoImage      \* lines 125-126
      [] o = "decodeError" -> NoImage      \* lines 129-148 raise, lines 150-152
      [] o = "ok"          -> B64(url)     \* line 148

(* ------------------------- image size ----------------------------------- *)
Abs(x) == IF x < 0 THEN -x ELSE x
Max(a, b) == IF a > b THEN a ELSE b

(* A test that looks at the width alone. *)
NeedsThumbnailWidth(w, h, M) == w > M

(* max(img.size) > self.max_image_size, line 141. *)
NeedsThumbnail(w, h, M) == Max(w, h) > M

(* img.thumbnail((M, M), LANCZOS), line 142, as Pillow computes the new    *)
(* size of a w x h image: unchanged when it fits the box; otherwise the    *)
(* edge along which the box is tighter becomes M and the other one the     *)
(* floor or the ceiling of its proportional length, whichever keeps the    *)
(* aspect ratio closer (the floor on a tie), and at least 1.               *)
ThumbnailSize(w, h, M) ==
    IF M >= w /\ M >= h THEN <<w, h>>
    ELSE IF h >= w
    THEN LET f == (M * w) \div h
             c == IF (M * w) % h = 0 THEN f ELSE f + 1
             n == IF Abs(w * M - f * h) <= Abs(w * M - c * h) THEN f ELSE c
         IN  <<Max(n, 1), M>>
    ELSE LET f == (M * h) \div w
             c == IF (M * h) % w = 0 THEN f ELSE f + 1
             n == IF f = 0 THEN f
                  ELSE IF Abs(w * f - M * h) * c <= Abs(w * c - M * h) * f THEN f ELSE c
         IN  <<M, Max(n, 1)>>

(* The size of the JPEG made from a decodable w x h image, lines 141-146:  *)
(* the conversions of mode and the JPEG encoding keep the size.            *)
TranscodedSize(w, h, M) ==
    IF NeedsThumbnail(w, h, M) THEN ThumbnailSize(w, h, M) ELSE <<w, h>>

(* if img_b64, line 193: None (and the empty string) are false. *)
TruthyImage(b) == b.kind = "str"

(* ------------------------- captions ------------------------------------- *)
(* A Python string is a sequence of pieces; concatenation is \o and the    *)
(* empty string is << >>.  The emoji of the source are written in ASCII:   *)
(* [long] [r18] [ugoira] [art] [user] [likes] [match] [tags] [link].       *)
RECURSIVE JoinTags(_)
JoinTags(ts) ==
    IF ts = <<>> THEN <<>>
    ELSE IF Len(ts) = 1 THEN <<"#", ts[1]>>
    ELSE <<"#", ts[1], " ">> \o JoinTags(Tail(ts))

(* tags[:5], line 156. *)
FirstTags(ts) == SubSeq(ts, 1, IF Len(ts) < 5 THEN Len(ts) ELSE 5)

(* f"{match_score*100:.0f}", line 162: thousandths to a whole percentage,  *)
(* a half rounding to the even neighbour.                                  *)
Percent(score) ==
    LET q == score \div 10
        r == score % 10
    IN  IF r > 5 \/ (r = 5 /\ q % 2 = 1) THEN q + 1 ELSE q

(* A suffix that is there for every page count. *)
PageInfoAlways(illust) == <<" (", ToString(illust.page_count), "P)">>

(* page_info, line 159. *)
PageInfo(illust) ==
    IF illust.page_count > 1 THEN <<" (", ToString(illust.page_count), "P)">> ELSE <<>>

(* A marker that is there from max_pages on. *)
LongMarkFrom(self_max_pages, illust) ==
    IF illust.page_count >= self_max_pages THEN <<"[long] ">> ELSE <<>>

(* long_mark, line 164. *)
LongMark(self_max_pages, illust) ==
    IF illust.page_count > self_max_pages THEN <<"[long] ">> ELSE <<>>

(* format_message, lines 154-174, of a notifier whose max_pages is         *)
(* self_max_pages.                                                         *)
FormatMessage(self_max_pages, illust) ==
    LET tags        == JoinTags(FirstTags(illust.tags))
        r18_mark    == IF illust.is_r18 THEN <<"[r18] ">> ELSE <<>>
        ugoira_mark == IF illust.type = "ugoira" THEN <<"[ugoira] ">> ELSE <<>>
        page_info   == PageInfo(illust)
        match_line  == IF illust.match_score # None
                       THEN <<"[match] ", ToString(Percent(illust.match_score)), "%\n">>
                       ELSE <<>>
        long_mark   == LongMark(self_max_pages, illust)
    IN  long_mark \o r18_mark \o ugoira_mark \o <<"[art] ", illust.title>> \o page_info
        \o <<"\n", "[user] ", illust.user_name, "\n">>
        \o <<"[likes] ", ToString(illust.bookmark_count), "\n">>
        \o match_line
        \o <<"[tags] ">> \o tags \o <<"\n">>
        \o <<"[link] https://pixiv.net/i/", ToString(illust.id), "\n\n">>
        \o <<"reply ", ToString(illust.id), " 1=like 2=dislike">>

(* format_message of the notifier of the model. *)
format_message(illust) == FormatMessage(max_pages, illust)

(* ------------------------- message chains ------------------------------- *)
(* A segment {"type": t, k: v}: its type, the name of its one other key    *)
(* and that key's string.                                                  *)
Segment(type, key, val) == [type |-> type, key |-> key, val |-> val]

(* get_pixiv_cat_url of utils: the mirror link of an illustration id. *)
get_pixiv_cat_url(id) == <<"https://pixiv.cat/", ToString(id), ".jpg">>

(* An image segment that falls back to the cover URL itself. *)
ImageSegmentCover(illust, b) ==
    IF TruthyImage(b)
    THEN Segment("Image", "base64", b.text)
    ELSE Segment("Image", "url", <<ToString(illust.image_urls[1])>>)

(* The image segment send puts first, lines 193-205. *)
ImageSegment(illust, b) ==
    IF TruthyImage(b)
    THEN Segment("Image", "base64", b.text)
    ELSE Segment("Image", "url", get_pixiv_cat_url(illust.id))

(* The caption segment, lines 208-212. *)
PlainSegment(illust) == Segment("Plain", "text", format_message(illust))

(* ------------------------- state ---------------------------------------- *)
VARIABLES
    _session,              \* self._session: None or the number of a session in sessions
    sessions,              \* every aiohttp.ClientSession created so far, in creation order
    _message_illust_map,   \* self._message_illust_map: msg_id -> illust_id
    on_feedback,           \* whether a feedback callback was given to __init__
    pc,                    \* where the send coroutine stands
    illusts,               \* send: its argument
    idx,                   \* send: position of the for loop, 1-based
    success_ids,           \* send: success_ids
    img_b64,               \* send: img_b64
    message_chain,         \* send: message_chain
    result,                \* send: result
    returned,              \* the list the last send call returned
    tpc,                   \* where the send_text coroutine stands
    tchain,                \* send_text: message_chain
    targs,                 \* history: the (text, buttons) of the send_text call in progress
    tret,                  \* what the last send_text call came to
    forwarded,             \* the (illust_id, action) pairs the last handle_feedback call gave on_feedback
    fret,                  \* what the last handle_feedback call came to
    fargs,                 \* history: the (illust_id, action) the last handle_feedback call was given
    inflight,              \* HTTP requests issued and not yet answered
    started,               \* history of this send call: ids of the records it began
    posts,                 \* history of this send call: POSTs it issued
    fetches,               \* history of this send call: image fetches it issued
    pauses,                \* history of this send call: completed asyncio.sleep(1)
    paced,                 \* history: no POST of this send call completed since its last pause
    answered,              \* history of this send call: ids of the records answered 200 with a JSON body
    outcome,               \* history: what the POST send has just awaited came to
    toutcome,              \* history: what the POST of the last send_text call came to
    fetched,               \* history of this record: URLs handed to the transcoder
    imgOutcome,            \* history of this record: what its image fetch came to
    replaced,              \* history: the entry the POST just completed wrote took the place of another illustration's
    fn,                    \* the function applied on its own: "none", "format_message" or "transcode"
    arg,                   \* the input it is applied to
    out                    \* what it returned

sessionVars == <<_session, sessions>>
sendVars    == <<pc, illusts, idx, success_ids, img_b64, message_chain, result, returned>>
textVars    == <<tpc, tchain, tret, toutcome, targs>>
feedVars    == <<forwarded, fret, fargs>>
histVars    == <<started, posts, fetches, pauses, paced, answered, outcome, fetched, imgOutcome, replaced>>
vars == <<_session, sessions, _message_illust_map, on_feedback, pc, illusts, idx,
          success_ids, img_b64, message_chain, result, returned, tpc, tchain, targs,
          tret,
          forwarded, fret, fargs, inflight, started, posts, fetches,
          pauses, paced, answered, outcome,
          toutcome, fetched, imgOutcome, replaced, fn, arg, out>>
pureVars    == <<fn, arg, out>>
programVars == <<sessionVars, _message_illust_map, on_feedback, sendVars, textVars, feedVars,
                 inflight, histVars>>

(* ------------------------- sessions ------------------------------------- *)
(* A session object: its closed flag, and how often close() closed it. *)
NewSession == [closed |-> FALSE, closes |-> 0]

(* A condition that holds whatever session there is. *)
NeedsSessionAlways(s, ss) == TRUE

(* A condition that overlooks a closed session. *)
NeedsSessionNone(s, ss) == s = None

(* The condition of _ensure_session, line 68. *)
NeedsSession(s, ss) == s = None \/ ss[s].closed

(* _ensure_session, lines 66-69: self._session and the sessions after it. *)
EnsuredSession(s, ss) == IF NeedsSession(s, ss) THEN Len(ss) + 1 ELSE s
EnsuredSessions(s, ss) == IF NeedsSession(s, ss) THEN Append(ss, NewSession) ELSE ss

(* An HTTP request in flight: who awaits it, its method, the session used. *)
Request(owner, method, sess) == [owner |-> owner, method |-> method, sess |-> sess]

(* await self._ensure_session() and the request issued on self._session    *)
(* right after it: lines 86 and 100, lines 122 and 123.  The request the   *)
(* owner awaited before, if any, has been answered.                        *)
Issue(owner, method) ==
    /\ _session' = EnsuredSession(_session, sessions)
    /\ sessions' = EnsuredSessions(_session, sessions)
    /\ inflight' = { r \in inflight : r.owner # owner }
                     \cup { Request(owner, method, EnsuredSession(_session, sessions)) }

(* ------------------------- construction --------------------------------- *)
EmptyMap == [k \in {} |-> 0]
(* An assignment that replaces the whole dictionary. *)
MapReplace(m, k, v) == [x \in {k} |-> v]

(* self._message_illust_map[msg_id] = illust.id, line 222. *)
MapPut(m, k, v) == [x \in DOMAIN m \cup {k} |-> IF x = k THEN v ELSE m[x]]

(* __init__, lines 51-62, and the coroutines not yet called. *)
InitProgram ==
    /\ _session = None
    /\ sessions = <<>>
    /\ _message_illust_map = EmptyMap
    /\ on_feedback \in BOOLEAN
    /\ pc = "idle"
    /\ illusts = <<>>
    /\ idx = 0
    /\ success_ids = <<>>
    /\ img_b64 = NoImage
    /\ message_chain = <<>>
    /\ result = NoneResult
    /\ returned = <<>>
    /\ tpc = "idle"
    /\ tchain = <<>>
    /\ targs = <<>>
    /\ tret = "none"
    /\ forwarded = <<>>
    /\ fret = "none"
    /\ fargs = <<>>
    /\ inflight = {}
    /\ started = <<>>
    /\ posts = 0
    /\ fetches = 0
    /\ pauses = 0
    /\ paced = TRUE
    /\ answered = <<>>
    /\ outcome = NoOutcome
    /\ toutcome = NoOutcome
    /\ fetched = <<>>
    /\ imgOutcome = "none"
    /\ replaced = FALSE

(* The notifier after construction; no function is applied on its own. *)
Init ==
    /\ InitProgram
    /\ fn = "none"
    /\ arg = <<>>
    /\ out = <<>>

(* Another coroutine runs only while send is not running: send is idle,    *)
(* has returned, or is suspended in an await.                              *)
SendSuspended == pc # "loop"

(* The locals of send are kept while they are live: img_b64 and            *)
(* message_chain from their assignment to the POST's completion, result    *)
(* from line 215 to the end of the iteration; outside they hold the values *)
(* of Init.  The list a send call returned and the history of that call    *)
(* are kept until the caller makes its next call.                          *)
CallerMovesOn ==
    IF pc = "done"
    THEN /\ pc' = "idle"
         /\ illusts' = <<>>
         /\ returned' = <<>>
         /\ started' = <<>>
         /\ posts' = 0
         /\ fetches' = 0
         /\ pauses' = 0
         /\ answered' = <<>>
         /\ UNCHANGED <<idx, success_ids, img_b64, message_chain, result, paced, outcome,
                        fetched, imgOutcome, replaced>>
    ELSE UNCHANGED <<sendVars, histVars>>

(* What the earlier send_text and handle_feedback calls came to is kept    *)
(* until the caller makes its next call.                                   *)
OthersForgotten ==
    /\ tret' = "none"
    /\ toutcome' = NoOutcome
    /\ forwarded' = <<>>
    /\ fret' = "none"
    /\ fargs' = <<>>

(* ------------------------- send ----------------------------------------- *)
(* A send that ensures the session before it looks at the batch. *)
SendCallEager ==
    /\ pc \in {"idle", "done"}
    /\ \E batch \in Batches :
         /\ illusts' = batch
         /\ IF batch = <<>>
            THEN /\ pc' = "done"
                 /\ idx' = 0
            ELSE /\ pc' = "loop"
                 /\ idx' = 1
    /\ _session' = EnsuredSession(_session, sessions)
    /\ sessions' = EnsuredSessions(_session, sessions)
    /\ success_ids' = <<>>
    /\ returned' = <<>>
    /\ started' = <<>>
    /\ posts' = 0
    /\ fetches' = 0
    /\ pauses' = 0
    /\ answered' = <<>>
    /\ OthersForgotten
    /\ UNCHANGED <<_message_illust_map, on_feedback, img_b64, message_chain, result, tpc,
                   tchain, targs, inflight, paced, outcome, fetched, imgOutcome, replaced,
                   pureVars>>

(* send is called, lines 176-181: an empty batch returns [] at once. *)
SendCall ==
    /\ pc \in {"idle", "done"}
    /\ \E batch \in Batches :
         /\ illusts' = batch
         /\ IF batch = <<>>
            THEN /\ pc' = "done"
                 /\ idx' = 0
            ELSE /\ pc' = "loop"
                 /\ idx' = 1
    /\ success_ids' = <<>>
    /\ returned' = <<>>
    /\ started' = <<>>
    /\ posts' = 0
    /\ fetches' = 0
    /\ pauses' = 0
    /\ answered' = <<>>
    /\ OthersForgotten
    /\ UNCHANGED <<sessionVars, _message_illust_map, on_feedback, img_b64, message_chain,
                   result, tpc, tchain, targs, inflight, paced, outcome, fetched, imgOutcome, replaced,
                   pureVars>>

(* The for loop is exhausted, lines 230-231. *)
SendReturn ==
    /\ pc = "loop"
    /\ idx > Len(illusts)
    /\ pc' = "done"
    /\ returned' = success_ids
    /\ idx' = 0
    /\ success_ids' = <<>>
    /\ outcome' = NoOutcome
    /\ paced' = TRUE
    /\ UNCHANGED <<sessionVars, _message_illust_map, on_feedback, illusts, img_b64,
                   message_chain, result, textVars, feedVars, inflight, started, posts,
                   pauses, answered, fetched, imgOutcome, replaced, fetches,
                   pureVars>>

(* Lines 215 and 86-100: the chain is handed to _post_message, which       *)
(* ensures the session and issues the POST.                                *)
SendIssuePost(chain) ==
    /\ message_chain' = chain
    /\ Issue("send", "POST")
    /\ posts' = posts + 1
    /\ pc' = "post"

(* A record with an image URL is begun, lines 183-191 and 118-123: the     *)
(* cover URL goes to the transcoder, which awaits the download.            *)
SendFetch ==
    /\ pc = "loop"
    /\ idx <= Len(illusts)
    /\ illusts[idx].image_urls # <<>>
    /\ message_chain' = <<>>
    /\ Issue("send", "GET")
    /\ fetched' = <<illusts[idx].image_urls[1]>>
    /\ fetches' = fetches + 1
    /\ started' = Append(started, illusts[idx].id)
    /\ outcome' = NoOutcome
    /\ pc' = "fetch"
    /\ UNCHANGED <<_message_illust_map, on_feedback, illusts, idx, success_ids, img_b64,
                   result, returned, textVars, feedVars, posts, pauses, paced, answered,
                   imgOutcome, replaced,
                   pureVars>>

(* The download is over, lines 123-152, 193-215: the image segment, the    *)
(* caption and the POST.                                                   *)
SendFetchDone ==
    /\ pc = "fetch"
    /\ \E o \in ImageOutcomes :
         LET illust == illusts[idx]
             b      == DownloadAndEncode(o, illust.image_urls[1])
         IN  /\ img_b64' = b
             /\ imgOutcome' = o
             /\ SendIssuePost(<<ImageSegment(illust, b), PlainSegment(illust)>>)
    /\ UNCHANGED <<_message_illust_map, on_feedback, illusts, idx, success_ids, result,
                   returned, textVars, feedVars, started, pauses, paced, answered, outcome,
                   fetched, replaced, fetches,
                   pureVars>>

(* A record without image URL is begun, lines 183-188 and 207-215. *)
SendPlain ==
    /\ pc = "loop"
    /\ idx <= Len(illusts)
    /\ illusts[idx].image_urls = <<>>
    /\ SendIssuePost(<<PlainSegment(illusts[idx])>>)
    /\ started' = Append(started, illusts[idx].id)
    /\ outcome' = NoOutcome
    /\ UNCHANGED <<_message_illust_map, on_feedback, illusts, idx, success_ids, img_b64,
                   result, returned, textVars, feedVars, pauses, paced, answered, fetched,
                   imgOutcome, replaced, fetches,
                   pureVars>>

(* Bookkeeping that writes the map entry of a delivery without counting    *)
(* the delivery as a success.                                              *)
RecordResultUncounted(res, ids, map, illust_id) ==
    IF ~Truthy(res)
    THEN [success_ids |-> ids, map |-> map, raised |-> "none"]
    ELSE IF res.kind # "object"
    THEN [success_ids |-> Append(ids, illust_id), map |-> map, raised |-> "AttributeError"]
    ELSE [success_ids |-> ids,
          map |-> IF TruthyId(ExtractMsgId(res))
                  THEN MapPut(map, ExtractMsgId(res), illust_id) ELSE map,
          raised |-> "none"]

(* Lines 217-222 for the value _post_message returned: the success list   *)
(* and the map after them, and the exception they raise ("none" if none;   *)
(* a list has no get, so line 220 raises AttributeError on it).            *)
RecordResult(res, ids, map, illust_id) ==
    IF ~Truthy(res)
    THEN [success_ids |-> ids, map |-> map, raised |-> "none"]
    ELSE IF res.kind # "object"
    THEN [success_ids |-> Append(ids, illust_id), map |-> map, raised |-> "AttributeError"]
    ELSE [success_ids |-> Append(ids, illust_id),
          map |-> IF TruthyId(ExtractMsgId(res))
                  THEN MapPut(map, ExtractMsgId(res), illust_id) ELSE map,
          raised |-> "none"]

(* A loop body without the handler of lines 227-228. *)
AfterRecordAbort(exc) ==
    IF exc = "none" THEN "sleep" ELSE "raised"

(* Where send goes once lines 215-222 are over: into asyncio.sleep(1),     *)
(* line 225, or, after an exception, through the handler of lines 227-228  *)
(* to the next record; an exception the handler does not catch leaves      *)
(* send.                                                                   *)
AfterRecord(exc) ==
    IF exc = "none" THEN "sleep"
    ELSE IF SendCatches(exc) THEN "loop"
    ELSE "raised"

(* History: the gateway answered 200 with a body that is JSON. *)
Answered200(o) == o.net = "response" /\ o.status = 200 /\ o.parse = "ok"

(* The POST of send is over, lines 100-114 and 215-228. *)
SendPostDone ==
    /\ pc = "post"
    /\ \E o \in HttpOutcomes :
         LET r     == PostMessage(o)
             rec   == IF r.raised = "none"
                      THEN RecordResult(r.value, success_ids, _message_illust_map,
                                        illusts[idx].id)
                      ELSE [success_ids |-> success_ids, map |-> _message_illust_map,
                            raised |-> r.raised]
         IN  /\ result' = IF AfterRecord(rec.raised) = "sleep" THEN r.value ELSE NoneResult
             /\ success_ids' = rec.success_ids
             /\ _message_illust_map' = rec.map
             /\ pc' = AfterRecord(rec.raised)
             /\ idx' = IF AfterRecord(rec.raised) = "loop" THEN idx + 1 ELSE idx
             /\ answered' = IF Answered200(o) THEN Append(answered, illusts[idx].id)
                            ELSE answered
             /\ outcome' = o
             /\ replaced' = \E k \in DOMAIN _message_illust_map \cap DOMAIN rec.map :
                                rec.map[k] # _message_illust_map[k]
    /\ inflight' = { r \in inflight : r.owner # "send" }
    /\ paced' = FALSE
    /\ img_b64' = NoImage
    /\ message_chain' = <<>>
    /\ fetched' = <<>>
    /\ imgOutcome' = "none"
    /\ UNCHANGED <<sessionVars, on_feedback, illusts, returned, textVars, feedVars,
                   started, posts, pauses, fetches,
                   pureVars>>

(* asyncio.sleep(1) is over, line 225: on to the next record. *)
SendWake ==
    /\ pc = "sleep"
    /\ pc' = "loop"
    /\ idx' = idx + 1
    /\ pauses' = pauses + SendInterval
    /\ paced' = TRUE
    /\ result' = NoneResult
    /\ outcome' = NoOutcome
    /\ replaced' = FALSE
    /\ UNCHANGED <<sessionVars, _message_illust_map, on_feedback, illusts, success_ids,
                   img_b64, message_chain, returned, textVars, feedVars, inflight, started,
                   posts, answered, fetched, imgOutcome, fetches,
                   pureVars>>

(* ------------------------- send_text ------------------------------------ *)
(* The buttons argument: None or a list of (label, action) pairs. *)
NoButtons == [given |-> FALSE, items |-> <<>>]
Buttons(items) == [given |-> TRUE, items |-> items]

ButtonInputs ==
    { NoButtons, Buttons(<<>>), Buttons(<< <<"Like", "like">>, <<"Skip", "skip">> >>) }

TextInputs == { <<"hello">> }

(* "\n".join(f"* {label}" for label, _ in buttons), line 240. *)
RECURSIVE JoinLabels(_)
JoinLabels(bs) ==
    IF bs = <<>> THEN <<>>
    ELSE IF Len(bs) = 1 THEN <<"* ", bs[1][1]>>
    ELSE <<"* ", bs[1][1], "\n">> \o JoinLabels(Tail(bs))

(* The chain of send_text, lines 235-241: if buttons is false for None     *)
(* and for the empty list.                                                 *)
TextChain(text, buttons) ==
    IF buttons.given /\ buttons.items # <<>>
    THEN << Segment("Plain", "text", text \o <<"\n\n">> \o JoinLabels(buttons.items)) >>
    ELSE << Segment("Plain", "text", text) >>

(* send_text is called, lines 233-243 and 86-100. *)
SendTextCall ==
    /\ tpc = "idle"
    /\ SendSuspended
    /\ \E text \in TextInputs, buttons \in ButtonInputs :
         /\ tchain' = TextChain(text, buttons)
         /\ targs' = <<text, buttons>>
    /\ Issue("send_text", "POST")
    /\ tpc' = "post"
    /\ OthersForgotten
    /\ CallerMovesOn
    /\ UNCHANGED <<_message_illust_map, on_feedback,
                   pureVars>>

(* return result is not None, line 244; an exception leaving               *)
(* _post_message leaves send_text too.                                     *)
TextResult(r) ==
    IF r.raised # "none" THEN "raised"
    ELSE IF r.value.kind # "None" THEN "True"
    ELSE "False"

(* The POST of send_text is over, lines 100-114 and 243-244. *)
SendTextDone ==
    /\ tpc = "post"
    /\ SendSuspended
    /\ \E o \in HttpOutcomes :
         /\ tret' = TextResult(PostMessage(o))
         /\ toutcome' = o
    /\ tpc' = "idle"
    /\ tchain' = <<>>
    /\ targs' = <<>>
    /\ inflight' = { r \in inflight : r.owner # "send_text" }
    /\ UNCHANGED <<sessionVars, _message_illust_map, on_feedback, sendVars, feedVars,
                   histVars,
                   pureVars>>

(* ------------------------- handle_feedback ------------------------------ *)
FeedbackInputs == { <<1, "1">>, <<2, "2">> }

(* handle_feedback, lines 246-250: the callback, when there is one, is     *)
(* awaited; it returns or raises, and what it raises leaves                *)
(* handle_feedback.                                                        *)
HandleFeedback ==
    /\ SendSuspended
    /\ \E fb \in FeedbackInputs, raises \in BOOLEAN :
         /\ fargs' = fb
         /\ IF on_feedback
            THEN /\ forwarded' = <<fb>>
                 /\ fret' = IF raises THEN "raised" ELSE "True"
            ELSE /\ forwarded' = <<>>
                 /\ fret' = "True"
    /\ tret' = "none"
    /\ toutcome' = NoOutcome
    /\ CallerMovesOn
    /\ UNCHANGED <<sessionVars, _message_illust_map, on_feedback, tpc, tchain, targs, inflight,
                   pureVars>>

(* ------------------------- close ---------------------------------------- *)
(* A condition that overlooks that the session is already closed. *)
ClosesSessionHeld(s, ss) == s # None

(* The condition of close, line 73. *)
ClosesSession(s, ss) == s # None /\ ~ss[s].closed

(* close, lines 71-74.  The model stops closing sessions once MaxSessions  *)
(* have been created.                                                      *)
Close ==
    /\ SendSuspended
    /\ ClosesSession(_session, sessions) => Len(sessions) < MaxSessions
    /\ sessions' = IF ClosesSession(_session, sessions)
                   THEN [sessions EXCEPT ![_session] =
                            [closed |-> TRUE, closes |-> @.closes + 1]]
                   ELSE sessions
    /\ OthersForgotten
    /\ CallerMovesOn
    /\ UNCHANGED <<_session, _message_illust_map, on_feedback, tpc, tchain, targs, inflight,
                   pureVars>>

(* ------------------------- specification -------------------------------- *)
(* No coroutine of the notifier is in progress. *)
Quiet == pc \in {"idle", "done"} /\ tpc = "idle"

(* One caller, each call awaited before the next is made. *)
Next ==
    \/ Quiet /\ SendCall
    \/ SendReturn
    \/ SendFetch
    \/ SendFetchDone
    \/ SendPlain
    \/ SendPostDone
    \/ SendWake
    \/ Quiet /\ SendTextCall
    \/ SendTextDone
    \/ Quiet /\ HandleFeedback
    \/ Quiet /\ Close

Spec == Init /\ [][Next]_vars

(* A step of the send coroutine. *)
SendStep ==
    SendReturn \/ SendFetch \/ SendFetchDone \/ SendPlain \/ SendPostDone \/ SendWake

(* The event loop resumes send whenever it can go on: every image fetch    *)
(* and every POST it awaits comes to an end (an answer, an error or the    *)
(* timeout of 30 s, line 100), and asyncio.sleep(1) returns.               *)
SpecFair == Init /\ [][Next]_vars /\ WF_vars(SendStep)

(* Several callers on one event loop: a call is made whenever no coroutine *)
(* is running, also while send or send_text is suspended in an await.      *)
(* handle_feedback, which awaits nothing but the callback and touches no   *)
(* state of the notifier, is left to the one-caller specification.         *)
NextConcurrent ==
    \/ SendCall
    \/ SendReturn
    \/ SendFetch
    \/ SendFetchDone
    \/ SendPlain
    \/ SendPostDone
    \/ SendWake
    \/ SendTextCall
    \/ SendTextDone
    \/ Close

SpecConcurrent == Init /\ [][NextConcurrent]_vars

(* ------------------------- functions on their own ----------------------- *)
(* The records and the max_pages format_message is applied to. *)
CaptionInputs ==
    { [kind |-> "caption", max_pages |-> mp,
       illust |-> Illust(7, <<>>, n, r18, type, score, <<"a", "b">>)] :
        mp \in 1..MaxMaxPages, n \in 0..MaxPageCount, r18 \in BOOLEAN,
        type \in {"illust", "ugoira"}, score \in {None, 875} }

(* The decodable images and the max_image_size the transcoder is applied   *)
(* to.                                                                     *)
ImageInputs ==
    { [kind |-> "image", w |-> w, h |-> h, max_image_size |-> M] :
        w \in 1..MaxEdge, h \in 1..MaxEdge, M \in 1..MaxImageSize }

InitPure ==
    /\ InitProgram
    /\ fn = "none"
    /\ arg \in CaptionInputs \cup ImageInputs
    /\ out = <<>>

(* format_message is applied, lines 154-174. *)
FormatCaption ==
    /\ fn = "none"
    /\ arg.kind = "caption"
    /\ fn' = "format_message"
    /\ out' = FormatMessage(arg.max_pages, arg.illust)
    /\ UNCHANGED <<programVars, arg>>

(* The transcoder is applied to a decodable image, lines 129-148. *)
Transcode ==
    /\ fn = "none"
    /\ arg.kind = "image"
    /\ fn' = "transcode"
    /\ out' = TranscodedSize(arg.w, arg.h, arg.max_image_size)
    /\ UNCHANGED <<programVars, arg>>

NextPure ==
    \/ FormatCaption
    \/ Transcode

SpecPure == InitPure /\ [][NextPure]_vars

(* ======================================================================= *)
(* Properties                                                              *)
(* ======================================================================= *)
(* The ids of a batch, in input order. *)
IdsOf(batch) == [k \in 1..Len(batch) |-> batch[k].id]

(* The identifier a response body carries, message_id before msg_id,       *)
(* whatever its value; None if it carries neither field.                   *)
Carried(body) == IF body.message_id # None THEN body.message_id ELSE body.msg_id

(* The POST came to a failure of the delivery: a transport error, a        *)
(* timeout or a status other than 200.                                     *)
DeliveryFailed(o) ==
    \/ o.net \in {"ClientError", "TimeoutError"}
    \/ o.net = "response" /\ o.status # 200

(* C1: whatever fails on a record (image, delivery, an exception raised    *)
(* while it is processed), send never raises, stays able to go on while it *)
(* has not returned, and has begun every record of the batch, in input     *)
(* order, when it returns its list.                                        *)
C1_BatchNeverAborted ==
    /\ pc # "raised"
    /\ pc \in {"loop", "fetch", "post", "sleep"} => ENABLED SendStep
    /\ pc = "done" => started = IdsOf(illusts)

(* C1 witness: a batch of two whose first record raised (no pause for it)  *)
(* and whose second record was still delivered.                            *)
C1_Witness ==
    /\ pc = "done"
    /\ Len(illusts) = 2
    /\ illusts[1].id # illusts[2].id
    /\ pauses = 1
    /\ returned = <<illusts[2].id>>
    /\ answered = <<illusts[2].id>>

(* C2: the list send returns is exactly the ids, in input order, of the    *)
(* records whose POST was answered 200 with a JSON body, and one POST was  *)
(* issued per record.                                                      *)
C2_ReturnedIsAnswered200 ==
    pc = "done" => returned = answered /\ posts = Len(illusts)

(* C3: a delivery that send counts as a success and whose response carries *)
(* an identifier (any value, message_id before msg_id) leaves the map      *)
(* holding identifier -> illustration id; one that carries none leaves the *)
(* map as it was.                                                          *)
C3_IdentifierRecorded ==
    [][ (pc = "post" /\ success_ids' # success_ids /\ Answered200(outcome'))
        => IF Carried(outcome'.body) # None
           THEN /\ Carried(outcome'.body) \in DOMAIN _message_illust_map'
                /\ _message_illust_map'[Carried(outcome'.body)] = illusts[idx].id
           ELSE _message_illust_map' = _message_illust_map ]_vars

(* C4: a batch of n records performs exactly n pauses. *)
C4_PauseAfterEveryRecord ==
    pc = "done" => pauses = Len(illusts) * SendInterval

(* C5: send has at most one POST in flight, and when it awaits the image   *)
(* or the POST of a later record the pause has elapsed since its previous  *)
(* POST completed.                                                         *)
C5_SequentialAndPaced ==
    /\ Cardinality({ r \in inflight : r.owner = "send" /\ r.method = "POST" }) <= 1
    /\ pc \in {"fetch", "post"} => paced

(* C6: the chain handed to the gateway is [Image, Plain] for a record with *)
(* an image URL and [Plain] for one without; the Image segment holds the   *)
(* Base64 of the transcoded cover when the transcoding succeeded and the   *)
(* mirror URL of the illustration id when it failed; only the cover URL    *)
(* goes to the transcoder; whatever the image fetch comes to, the POST     *)
(* follows.                                                                *)
C6_ChainShape ==
    /\ [](pc = "post" =>
            LET illust == illusts[idx]
                plain  == [type |-> "Plain", key |-> "text",
                           val |-> format_message(illust)]
            IN  /\ Request("send", "POST", _session) \in inflight
                /\ IF illust.image_urls = <<>>
                   THEN /\ message_chain = <<plain>>
                        /\ fetched = <<>>
                   ELSE /\ fetched = <<illust.image_urls[1]>>
                        /\ Len(message_chain) = 2
                        /\ message_chain[2] = plain
                        /\ message_chain[1].type = "Image"
                        /\ IF imgOutcome = "ok"
                           THEN /\ message_chain[1].key = "base64"
                                /\ message_chain[1].val =
                                      <<"jpeg-base64:", ToString(illust.image_urls[1])>>
                           ELSE /\ message_chain[1].key = "url"
                                /\ message_chain[1].val = get_pixiv_cat_url(illust.id))
    /\ [][pc = "fetch" /\ pc' # "fetch" => pc' = "post"]_vars

(* C6 witness: the transcoder failed on the cover and the POST in flight   *)
(* carries the mirror URL and the caption.                                 *)
C6_Witness ==
    /\ pc = "post"
    /\ imgOutcome = "decodeError"
    /\ Len(message_chain) = 2
    /\ message_chain[1].key = "url"
    /\ message_chain[2].type = "Plain"

(* C7: the key recorded for a successful delivery is the value of          *)
(* message_id when the response has that field, whatever the value, and    *)
(* the value of msg_id only when message_id is absent.                     *)
C7_MessageIdFirst ==
    [][ (pc = "post" /\ success_ids' # success_ids /\ Answered200(outcome')
           /\ outcome'.body.kind = "object"
           /\ (outcome'.body.message_id # None \/ outcome'.body.msg_id # None))
        => LET key == IF outcome'.body.message_id # None
                      THEN outcome'.body.message_id
                      ELSE outcome'.body.msg_id
           IN  _message_illust_map' = MapPut(_message_illust_map, key, illusts[idx].id)
      ]_vars

(* C8: no step removes a key of the map, and the value under a key changes *)
(* only in the step that completes a successful delivery whose response    *)
(* reports that key, to the id of the record delivered.                    *)
C8_MapOnlyGrows ==
    [][ \A k \in DOMAIN _message_illust_map :
          /\ k \in DOMAIN _message_illust_map'
          /\ _message_illust_map'[k] # _message_illust_map[k]
               => /\ pc = "post"
                  /\ success_ids' = Append(success_ids, illusts[idx].id)
                  /\ Answered200(outcome')
                  /\ k \in {outcome'.body.message_id, outcome'.body.msg_id}
                  /\ _message_illust_map'[k] = illusts[idx].id ]_vars

(* C8 witness: a later delivery of another illustration reports the        *)
(* identifier the first delivery of the batch reported, and the entry      *)
(* holds the later id.                                                     *)
C8_Witness ==
    /\ pc = "sleep"
    /\ idx = 2
    /\ illusts[1].id # illusts[2].id
    /\ success_ids = IdsOf(illusts)
    /\ replaced
    /\ result.message_id = 1
    /\ _message_illust_map[1] = illusts[2].id

C10_SessionLazyAndReused ==
    /\ [](_session = None <=> sessions = <<>>)
    /\ [][ /\ Len(sessions') >= Len(sessions)
           /\ Len(sessions') > Len(sessions)
                => /\ Len(sessions') = Len(sessions) + 1
                   /\ _session = None \/ sessions[_session].closed
                   /\ _session' = Len(sessions')
                   /\ inflight' \ inflight # {}
           /\ _session' # _session => Len(sessions') > Len(sessions)
           /\ \A r \in inflight' \ inflight :
                /\ r.sess = _session'
                /\ ~sessions'[r.sess].closed
                /\ (_session # None /\ ~sessions[_session].closed) => r.sess = _session
         ]_vars

(* C10 witness: the first session was closed, and a request is in flight   *)
(* on the second one, created for a request made after the close.          *)
C10_Witness ==
    /\ Len(sessions) = 2
    /\ sessions[1].closed
    /\ ~sessions[2].closed
    /\ _session = 2
    /\ \E r \in inflight : r.sess = 2

(* C11: close closes the open session if there is one and otherwise does   *)
(* nothing and does not fail: a close call leaves the reference, the       *)
(* requests and the map alone, touches no session but the current one, and *)
(* after it a second close changes nothing; no session is closed twice.    *)
C11_CloseOnce ==
    /\ [](\A i \in DOMAIN sessions :
             /\ sessions[i].closes <= 1
             /\ sessions[i].closed <=> sessions[i].closes = 1)
    /\ []((Quiet /\ (_session = None \/ sessions[_session].closed)) => ENABLED Close)
    /\ [][ (Quiet /\ Close)
           => /\ UNCHANGED <<_session, _message_illust_map, inflight>>
              /\ DOMAIN sessions' = DOMAIN sessions
              /\ \A i \in DOMAIN sessions :
                   IF i = _session /\ ~sessions[i].closed
                   THEN sessions'[i].closed /\ sessions'[i].closes = 1
                   ELSE sessions'[i] = sessions[i]
              /\ _session # None => sessions'[_session].closed ]_vars
    /\ [][ \A i \in DOMAIN sessions : sessions[i].closed => sessions'[i] = sessions[i] ]_vars

(* C11 witness: the one session was closed once, and close can be called   *)
(* again.                                                                  *)
C11_Witness ==
    /\ Len(sessions) = 1
    /\ _session = 1
    /\ sessions[1].closed
    /\ sessions[1].closes = 1
    /\ Quiet
    /\ ENABLED Close

(* C12: send on an empty batch returns the empty list at once: the step    *)
(* that takes it creates no session, issues no request, performs no pause  *)
(* and leaves the map as it was.                                           *)
C12_EmptyBatchNoEffect ==
    /\ []((pc = "done" /\ illusts = <<>>)
            => /\ returned = <<>>
               /\ started = <<>>
               /\ posts = 0
               /\ fetches = 0
               /\ pauses = 0
               /\ \A r \in inflight : r.owner # "send")
    /\ [](pc \in {"loop", "fetch", "post", "sleep"} => illusts # <<>>)
    /\ [][ (pc' = "done" /\ illusts' = <<>>)
           => UNCHANGED <<_session, sessions, _message_illust_map, inflight>> ]_vars

(* C12 witness: send returned on an empty batch while the notifier holds   *)
(* an open session and a map entry from an earlier batch.                  *)
C12_Witness ==
    /\ pc = "done"
    /\ illusts = <<>>
    /\ returned = <<>>
    /\ _session # None
    /\ ~sessions[_session].closed
    /\ _message_illust_map # EmptyMap

(* C13: handle_feedback returns true for every (illust_id, action); with a *)
(* callback configured it hands exactly that pair to the callback, once;   *)
(* with none it invokes nothing; it never changes the session or the map.  *)
C13_FeedbackAcknowledged ==
    /\ [](fargs # <<>> =>
            /\ fret = "True"
            /\ forwarded = IF on_feedback THEN <<fargs>> ELSE <<>>)
    /\ [][ (fargs' # <<>> /\ Quiet)
           => UNCHANGED <<_session, sessions, _message_illust_map, inflight>> ]_vars

(* The text send_text is to post: the given text, and when buttons are     *)
(* given, a blank line and one bulleted line per label, in order.          *)
RECURSIVE BulletLines(_)
BulletLines(bs) ==
    IF bs = <<>> THEN <<>>
    ELSE (IF Len(bs) = 1 THEN <<"* ", bs[1][1]>> ELSE <<"* ", bs[1][1], "\n">>)
         \o BulletLines(Tail(bs))

(* C14: send_text posts one Plain segment whose text is the given text,    *)
(* followed when buttons are given by a blank line and the bulleted        *)
(* labels; it returns true exactly when the POST was answered 200 and      *)
(* false on every other outcome.                                           *)
C14_SendTextResult ==
    /\ tpc = "post" =>
         /\ Len(tchain) = 1
         /\ tchain[1].type = "Plain"
         /\ tchain[1].key = "text"
         /\ tchain[1].val = IF targs[2].given /\ targs[2].items # <<>>
                            THEN targs[1] \o <<"\n\n">> \o BulletLines(targs[2].items)
                            ELSE targs[1]
    /\ toutcome # NoOutcome =>
         /\ tret \in {"True", "False"}
         /\ tret = "True" <=> (toutcome.net = "response" /\ toutcome.status = 200)

(* Where a piece stands in a caption, and whether it is there at all. *)
Has(caption, piece) == \E i \in 1..Len(caption) : caption[i] = piece
Pos(caption, piece) == CHOOSE i \in 1..Len(caption) : caption[i] = piece

(* C15: the caption has " (<n>P)", n the page count, directly after the    *)
(* title exactly when page_count > 1; otherwise the line ends after the    *)
(* title and the caption has no such suffix.                               *)
C15_PageSuffix ==
    fn = "format_message" =>
        LET illust == arg.illust
            t      == Pos(out, illust.title)
        IN  /\ Has(out, illust.title)
            /\ IF illust.page_count > 1
               THEN SubSeq(out, t + 1, t + 4)
                      = <<" (", ToString(illust.page_count), "P)", "\n">>
               ELSE /\ out[t + 1] = "\n"
                    /\ ~Has(out, " (")
                    /\ ~Has(out, "P)")

(* C15 witness: a caption of a record of two pages, with the suffix. *)
C15_Witness ==
    /\ fn = "format_message"
    /\ arg.illust.page_count = 2
    /\ Has(out, " (")
    /\ Has(out, "2")

(* C16: the caption begins with the long-form marker exactly when          *)
(* page_count > max_pages; the markers that are there stand in the order   *)
(* long-form, adult, animated, and all before the title.                   *)
C16_LongMarkFirst ==
    fn = "format_message" =>
        LET illust == arg.illust
            long   == "[long] "
            r18    == "[r18] "
            ugoira == "[ugoira] "
        IN  /\ out[1] = long <=> illust.page_count > arg.max_pages
            /\ Has(out, long) => Pos(out, long) = 1
            /\ Has(out, r18) <=> illust.is_r18
            /\ Has(out, ugoira) <=> illust.type = "ugoira"
            /\ (Has(out, long) /\ Has(out, r18)) => Pos(out, long) < Pos(out, r18)
            /\ (Has(out, long) /\ Has(out, ugoira)) => Pos(out, long) < Pos(out, ugoira)
            /\ (Has(out, r18) /\ Has(out, ugoira)) => Pos(out, r18) < Pos(out, ugoira)
            /\ \A m \in {long, r18, ugoira} :
                 Has(out, m) => Pos(out, m) < Pos(out, illust.title)

(* C16 witness: page_count is max_pages + 1 and the caption begins with    *)
(* the three markers in order.                                             *)
C16_Witness ==
    /\ fn = "format_message"
    /\ arg.illust.page_count = arg.max_pages + 1
    /\ SubSeq(out, 1, 4) = <<"[long] ", "[r18] ", "[ugoira] ", "[art] ">>

(* C17: the JPEG made from a decodable w x h image has no edge above the   *)
(* maximum M; it has the size of the source when max(w, h) <= M; otherwise *)
(* its longer edge is M and its shorter edge is within one pixel of the    *)
(* proportional length, and at least one pixel.                            *)
C17_SizeBounded ==
    fn = "transcode" =>
        LET w == arg.w
            h == arg.h
            M == arg.max_image_size
            x == out[1]
            y == out[2]
        IN  /\ x <= M /\ y <= M
            /\ x >= 1 /\ y >= 1
            /\ IF w <= M /\ h <= M
               THEN out = <<w, h>>
               ELSE /\ w >= h => (x = M /\ Abs(y * w - M * h) < w)
                    /\ h >= w => (y = M /\ Abs(x * h - M * w) < h)

(* C17 witness: a 5 x 2 image under a maximum of 4 comes out 4 x 2. *)
C17_Witness ==
    /\ fn = "transcode"
    /\ arg.w = 5 /\ arg.h = 2 /\ arg.max_image_size = 4
    /\ out = <<4, 2>>

(* C18: the map changes only in the step of send that completes a POST     *)
(* answered 200, appends the record's id to the success list and goes on   *)
(* to the pause; that step writes one entry, the id of that record; so no  *)
(* step of a failed or raising delivery, of send_text, handle_feedback or  *)
(* close changes it, and every value in it is the id of a record.          *)
C18_MapWrittenOnSuccessOnly ==
    /\ [](\A k \in DOMAIN _message_illust_map :
             _message_illust_map[k] \in { r.id : r \in Catalogue })
    /\ [][ _message_illust_map' # _message_illust_map
           => /\ pc = "post" /\ pc' = "sleep"
              /\ Answered200(outcome')
              /\ success_ids' = Append(success_ids, illusts[idx].id)
              /\ UNCHANGED <<tpc, tret, fret, fargs, sessions, _session>>
              /\ \E k \in DOMAIN _message_illust_map' :
                   /\ _message_illust_map'[k] = illusts[idx].id
                   /\ \A j \in DOMAIN _message_illust_map' \ {k} :
                        /\ j \in DOMAIN _message_illust_map
                        /\ _message_illust_map'[j] = _message_illust_map[j]
         ]_vars

(* C18 witness: the first record of a batch was delivered, the gateway     *)
(* reported msg_id 2 for it, and the map holds 2 -> its id.                *)
C18_Witness ==
    /\ pc = "sleep"
    /\ idx = 1
    /\ success_ids = <<illusts[1].id>>
    /\ result.message_id = None
    /\ result.msg_id = 2
    /\ 2 \in DOMAIN _message_illust_map
    /\ _message_illust_map[2] = illusts[1].id

(* C19: whatever the interleaving of send, send_text, the image fetch and  *)
(* close, at most one session is open, the open one is the session held,   *)
(* and the session held is replaced only when there is none or it is       *)
(* closed.                                                                 *)
C19_AtMostOneOpen ==
    /\ [](/\ Cardinality({ i \in DOMAIN sessions : ~sessions[i].closed }) <= 1
          /\ \A i \in DOMAIN sessions : ~sessions[i].closed => i = _session)
    /\ [][ _session' # _session
           => /\ _session = None \/ sessions[_session].closed
              /\ \A i \in DOMAIN sessions : sessions[i].closed ]_vars

(* C19 witness: close ran while the POST of send was in flight on the      *)
(* first session, and send_text now awaits its POST on a second one, the   *)
(* only open session.                                                      *)
C19_Witness ==
    /\ Len(sessions) = 2
    /\ sessions[1].closed
    /\ ~sessions[2].closed
    /\ Request("send", "POST", 1) \in inflight
    /\ Request("send_text", "POST", 2) \in inflight

(* C20: a send call that has begun always returns; for a batch of n        *)
(* records it issues at most n image fetches and n POSTs and performs at   *)
(* most n pauses; the list it returns is set once, in the step that        *)
(* returns, after the last record.                                         *)
C20_SendTerminates ==
    /\ [](/\ fetches <= Len(illusts)
          /\ posts <= Len(illusts)
          /\ pauses <= Len(illusts) * SendInterval
          /\ Len(started) <= Len(illusts))
    /\ [](pc # "done" => returned = <<>>)
    /\ [][ returned' # returned /\ returned' # <<>>
           => /\ pc = "loop" /\ idx > Len(illusts)
              /\ pc' = "done"
              /\ returned' = success_ids ]_vars
    /\ (pc \in {"loop", "fetch", "post", "sleep"}) ~> (pc = "done")

(* C20 witness: a batch of two records with images returned after two      *)
(* fetches, two POSTs and two pauses, with both ids.                       *)
C20_Witness ==
    /\ pc = "done"
    /\ Len(illusts) = 2
    /\ fetches = 2
    /\ posts = 2
    /\ pauses = 2 * SendInterval
    /\ returned = IdsOf(illusts)

====
